---- MODULE Spec2Model ----
(***************************************************************************)
(* A model of the analytics pipeline of src/analysis.py (SNCF open data):  *)
(* the ridership loader with its fallback chain (load_ridership_csv) and   *)
(* the pricing analysis (analyse_pricing, haversine).                      *)
(*                                                                         *)
(* Text is modelled as a sequence of tokens.  A token is an atomic chunk   *)
(* of characters; a decimal digit is always a token of its own, so that    *)
(* str() of a number and the parsing of a numeral are computed digit by    *)
(* digit.  A floating point number is modelled in fixed point.             *)
(***************************************************************************)
EXTENDS Integers, Sequences, FiniteSets, TLC

VARIABLES
  fs,           \* the local file system: candidate path -> file state
  calls,        \* number of calls of load_ridership_csv made so far
  lastCall,     \* what the last call of load_ridership_csv did and returned
  dataTouched,  \* the cache path was written or removed from outside since the last call
  df_stations,  \* the station table handed to analyse_pricing
  df_price,     \* the fare table handed to analyse_pricing
  pricing,      \* what analyse_pricing built and returned
  df_ridership, \* the ridership table handed to analyse_ridership
  ridership,    \* what analyse_ridership returned
  df_punctuality, \* the punctuality table handed to analyse_punctuality
  punctuality,  \* what analyse_punctuality returned
  document,     \* the JSON document handed to load_json_records
  loaded,       \* what load_json_records returned
  distance_km,  \* the distance handed to estimate_emissions, in 1/Scale km
  emissions,    \* what estimate_emissions returned
  coords,       \* the two coordinates handed to haversine
  great_circle  \* what haversine returned, each way

loaderVars == <<fs, calls, lastCall, dataTouched>>

pricingVars == <<df_stations, df_price, pricing>>

ridershipVars == <<df_ridership, ridership>>

punctualityVars == <<df_punctuality, punctuality>>

jsonVars == <<document, loaded>>

emissionVars == <<distance_km, emissions>>

geoVars == <<coords, great_circle>>

functionVars == <<jsonVars, emissionVars, geoVars>>

analysisVars == <<pricingVars, ridershipVars, punctualityVars>>

vars == <<fs, calls, lastCall, dataTouched, df_stations, df_price, pricing,
          df_ridership, ridership, df_punctuality, punctuality,
          document, loaded, distance_km, emissions, coords, great_circle>>

(***************************************************************************)
(* Bounds of the model.                                                    *)
(***************************************************************************)
MaxCalls == 2

MaxStations == 2

MaxFares == 2

(***************************************************************************)
(* Text helpers.                                                           *)
(***************************************************************************)
Digits == <<"0", "1", "2", "3", "4", "5", "6", "7", "8", "9">>

IsDigit(t) == \E i \in 1..10 : Digits[i] = t

DigitValue(t) == (CHOOSE i \in 1..10 : Digits[i] = t) - 1

\* The value of a sequence of digit tokens, most significant digit first.
RECURSIVE DigitsValue(_)
DigitsValue(s) ==
  IF Len(s) = 0 THEN 0
  ELSE 10 * DigitsValue(SubSeq(s, 1, Len(s) - 1)) + DigitValue(s[Len(s)])

\* str.startswith for a prefix that is one token.
StartsWith(s, prefixToken) == Len(s) > 0 /\ s[1] = prefixToken

(***************************************************************************)
(* Cells of a pandas table: a missing value (NaN), a string, a number.     *)
(***************************************************************************)
NaN == [k |-> "nan", s |-> <<>>, n |-> 0]

StrCell(s) == [k |-> "str", s |-> s, n |-> 0]

NumCell(n) == [k |-> "num", s |-> <<>>, n |-> n]

\* The strings pandas.read_csv takes for a missing value by default
\* (the ones the model's files use).
NaTokens == {<<>>, <<"NA">>, <<"NaN">>, <<"null">>}

\* pandas.read_csv(..., dtype=str) on one field.
ReadCell(raw) == IF raw \in NaTokens THEN NaN ELSE StrCell(raw)

\* DataFrame.to_csv on one cell of a string table: a missing value is written
\* as the empty field.
WriteCell(c) == IF c.k = "nan" THEN <<>> ELSE c.s

\* pandas.to_numeric(..., errors="coerce") on one cell.
ToNumericCell(c) ==
  IF c.k = "num" THEN c
  ELSE IF c.k = "str" /\ Len(c.s) > 0 /\ \A i \in 1..Len(c.s) : IsDigit(c.s[i])
       THEN NumCell(DigitsValue(c.s))
       ELSE NaN

(***************************************************************************)
(* Delimited tables.  A file holds a header and rows of raw fields; a      *)
(* DataFrame holds the header and rows of cells.  Tables are rectangular.  *)
(***************************************************************************)
\* pandas.read_csv(path, sep=";", dtype=str) on a readable file.
ReadCsv(raw) ==
  [header |-> raw.header,
   rows |-> [i \in 1..Len(raw.rows) |->
              [j \in 1..Len(raw.rows[i]) |-> ReadCell(raw.rows[i][j])]]]

\* A variant of the cache write without index=False: to_csv also writes the
\* row index, as a first column with an empty name, which read_csv names
\* "Unnamed: 0".
ToCsvWithIndex(df) ==
  [header |-> << <<"Unnamed: ", "0">> >> \o df.header,
   rows |-> [i \in 1..Len(df.rows) |->
              << <<Digits[i]>> >> \o [j \in 1..Len(df.rows[i]) |-> WriteCell(df.rows[i][j])]]]

\* df.to_csv(path, index=False, sep=";").
ToCsv(df) ==
  [header |-> df.header,
   rows |-> [i \in 1..Len(df.rows) |->
              [j \in 1..Len(df.rows[i]) |-> WriteCell(df.rows[i][j])]]]

IsNumericColumn(col) == StartsWith(col, "total_voyageurs") \/ col = <<"non_voyageurs">>

\* The last loop of load_ridership_csv: the yearly-total columns and the
\* non-traveller column are coerced to numbers.
ConvertNumeric(df) ==
  [header |-> df.header,
   rows |-> [i \in 1..Len(df.rows) |->
              [j \in 1..Len(df.rows[i]) |->
                 IF IsNumericColumn(df.header[j])
                 THEN ToNumericCell(df.rows[i][j])
                 ELSE df.rows[i][j]]]]

Y2022 == <<"total_voyageurs", "_", "2", "0", "2", "2">>
Y2023 == <<"total_voyageurs", "_", "2", "0", "2", "3">>
Y2024 == <<"total_voyageurs", "_", "2", "0", "2", "4">>

\* The embedded sample of load_ridership_csv.
sample_csv ==
  [header |-> << <<"nom_gare">>, Y2022, Y2023, Y2024, <<"non_voyageurs">> >>,
   rows |-> <<
     << <<"Paris Gare de Lyon">>,
        <<"1","0","0","0","0","0","0","0","0">>,
        <<"1","0","5","0","0","0","0","0","0">>,
        <<"1","1","0","0","0","0","0","0","0">>, <<"0">> >>,
     << <<"Lyon Part-Dieu">>,
        <<"5","0","0","0","0","0","0","0">>,
        <<"5","2","0","0","0","0","0","0">>,
        <<"5","4","0","0","0","0","0","0">>, <<"0">> >>,
     << <<"Bordeaux St Jean">>,
        <<"3","0","0","0","0","0","0","0">>,
        <<"3","1","0","0","0","0","0","0">>,
        <<"3","2","0","0","0","0","0","0">>, <<"0">> >> >>]

\* The tables of the model.  TableA is what the local files hold when the
\* outside world writes them; TableB is what the remote source serves, with
\* parseable, empty, "NA" and unparseable fields.
TableA ==
  [header |-> << <<"nom_gare">>, Y2023 >>,
   rows |-> << << <<"Gare A">>, <<"1","0">> >> >>]

TableB ==
  [header |-> << <<"nom_gare">>, Y2024, <<"non_voyageurs">>, <<"autre">> >>,
   rows |-> << << <<"Gare B">>, <<"2","0">>, <<"NA">>, <<"7">> >>,
               << <<"Gare C">>, <<"abc">>, <<>>, <<"NA">> >> >>]

LocalTables == {TableA}

RemoteTables == {TableB}

EmptyRaw == [header |-> <<>>, rows |-> <<>>]

NoDf == [header |-> <<>>, rows |-> <<>>]

(***************************************************************************)
(* The file system.  A candidate file is missing, present with a table, or *)
(* present but unreadable (a directory, an empty or a corrupt file:        *)
(* pandas.read_csv raises).                                                *)
(***************************************************************************)
Missing == [kind |-> "missing", raw |-> EmptyRaw]

Unreadable == [kind |-> "unreadable", raw |-> EmptyRaw]

CsvFile(raw) == [kind |-> "csv", raw |-> raw]

\* "user": a path of the caller's own; "data": DATA_DIR / frequentation-gares.csv;
\* "app": APP_DIR / frequentation-gares.csv; "cwd": os.getcwd() / frequentation-gares.csv.
Paths == {"user", "data", "app", "cwd"}

NoPath == "<None>"

EmptyPath == ""

\* The argument of load_ridership_csv: None (as in train_app.load_data), the
\* empty string, a path of the caller's own, or the working directory's
\* candidate (as in main()).
PathArgs == {NoPath, EmptyPath, "user", "cwd"}

\* "if path:" is false of None and of the empty string.
PathGiven(path) == path # NoPath /\ path # EmptyPath

candidate_paths(path) ==
  (IF PathGiven(path) THEN <<path>> ELSE <<>>) \o <<"data", "app", "cwd">>

LocalFound(src, df) == [raised |-> FALSE, found |-> TRUE, src |-> src, df |-> df]

LocalNone == [raised |-> FALSE, found |-> FALSE, src |-> "none", df |-> NoDf]

LocalRaised == [raised |-> TRUE, found |-> FALSE, src |-> "none", df |-> NoDf]

\* A variant of the local loop without its except clause: an unreadable
\* candidate's exception leaves the function.
RECURSIVE LocalLoopNoExcept(_, _, _)
LocalLoopNoExcept(files, cands, i) ==
  IF i > Len(cands) THEN LocalNone
  ELSE LET f == files[cands[i]] IN
       IF f.kind = "missing" THEN LocalLoopNoExcept(files, cands, i + 1)
       ELSE IF f.kind = "csv" THEN LocalFound(cands[i], ReadCsv(f.raw))
       ELSE LocalRaised

\* A variant of the local loop without its break: the last readable candidate wins.
RECURSIVE LocalLoopNoBreak(_, _, _)
LocalLoopNoBreak(files, cands, i) ==
  IF i > Len(cands) THEN LocalNone
  ELSE LET f == files[cands[i]]
           rest == LocalLoopNoBreak(files, cands, i + 1) IN
       IF f.kind = "csv" /\ ~rest.found THEN LocalFound(cands[i], ReadCsv(f.raw))
       ELSE rest

\* "Try local files first": the candidates in order from the i-th; the first
\* that exists and that read_csv reads ends the loop; an exception moves on
\* to the next candidate.
RECURSIVE LocalLoop(_, _, _)
LocalLoop(files, cands, i) ==
  IF i > Len(cands) THEN LocalNone
  ELSE LET f == files[cands[i]] IN
       IF f.kind = "missing" THEN LocalLoop(files, cands, i + 1)
       ELSE IF f.kind = "csv" THEN LocalFound(cands[i], ReadCsv(f.raw))
       ELSE LocalLoop(files, cands, i + 1)

\* A variant that fetches the remote table whatever the local files gave.
NeedRemoteAlways(local) == TRUE

\* "if df is None:" after the local loop.
NeedRemote(local) == ~local.found

\* What the remote source answers: a failure (no network, HTTP error,
\* unparseable body) or a table.
RemoteFail == [ok |-> FALSE, raw |-> EmptyRaw]

RemoteTable(raw) == [ok |-> TRUE, raw |-> raw]

RemoteOutcomes == {RemoteFail} \cup {RemoteTable(t) : t \in RemoteTables}

RemoteFailed(remote) == ~remote.ok

\* What the best-effort cache write does: it succeeds, it fails before the
\* file is opened (the file is left as it was), or it fails after the file
\* was opened for writing (an empty, unreadable file is left).
WriteOutcomes == {"ok", "fail_clean", "fail_trunc"}

CacheWrite(files, df, w) ==
  IF w = "ok" THEN [files EXCEPT !["data"] = CsvFile(ToCsv(df))]
  ELSE IF w = "fail_trunc" THEN [files EXCEPT !["data"] = Unreadable]
  ELSE files

\* A variant without the inner try: a failed cache write reaches the outer
\* "except Exception: df = None".
KeepsFetchedIfCached(w) == w = "ok"

\* "except Exception: pass" around the cache write: the fetched table is
\* kept however the write ended.
KeepsFetched(w) == w \in WriteOutcomes

\* One call of load_ridership_csv(path) on the files `files`, the remote
\* source answering `remote` and the cache write ending as `w`.
load_ridership_csv(files, path, remote, w) ==
  LET local == LocalLoop(files, candidate_paths(path), 1)
      fetch == ~local.raised /\ NeedRemote(local)
      read == fetch /\ ~RemoteFailed(remote)
      fetched == read /\ KeepsFetched(w)
      df == IF local.found THEN local.df
            ELSE IF fetched THEN ReadCsv(remote.raw)
            ELSE ReadCsv(sample_csv)
  IN  [raised |-> local.raised,
       path |-> path,
       remote |-> remote,
       src |-> IF local.raised THEN "none"
               ELSE IF local.found THEN local.src
               ELSE IF fetched THEN "remote" ELSE "synthetic",
       fetchTried |-> fetch,
       cacheWrite |-> IF read THEN w ELSE "none",
       files |-> IF read THEN CacheWrite(files, ReadCsv(remote.raw), w) ELSE files,
       df |-> IF local.raised THEN NoDf ELSE ConvertNumeric(df)]

NoCall ==
  [raised |-> FALSE, path |-> NoPath, remote |-> RemoteFail, src |-> "none",
   fetchTried |-> FALSE, cacheWrite |-> "none", df |-> NoDf]

(***************************************************************************)
(* Fixed-point arithmetic for haversine.  A real x is held as the integer  *)
(* x * Scale, rounded towards zero; angles are in radians.  The operations *)
(* are odd in each argument, as the floating point ones are.               *)
(***************************************************************************)
Scale == 10 ^ 4

Abs(x) == IF x < 0 THEN -x ELSE x

Sgn(x) == IF x < 0 THEN -1 ELSE IF x > 0 THEN 1 ELSE 0

MulFp(a, b) == Sgn(a) * Sgn(b) * ((Abs(a) * Abs(b)) \div Scale)

DivFp(a, b) == Sgn(a) * Sgn(b) * ((Abs(a) * Scale) \div Abs(b))

PiFp == 31416

HalfPiFp == 15708

\* math.radians of a whole number of degrees.
Radians(deg) == Sgn(deg) * ((Abs(deg) * PiFp) \div 180)

\* sin on [0, pi/2]: the Taylor polynomial up to the ninth power.
SinSeries(r) ==
  LET r2 == MulFp(r, r)
      t3 == MulFp(r2, r) \div 6
      t5 == MulFp(t3, r2) \div 20
      t7 == MulFp(t5, r2) \div 42
      t9 == MulFp(t7, r2) \div 72
  IN  r - t3 + t5 - t7 + t9

\* math.sin on [-pi, pi].
SinFp(x) ==
  LET ax == Abs(x)
      r == IF ax > HalfPiFp THEN PiFp - ax ELSE ax
  IN  Sgn(x) * SinSeries(r)

\* math.cos on [-pi/2, pi/2].
CosFp(x) == SinSeries(HalfPiFp - Abs(x))

\* The integer square root, by Newton's iteration from above.
RECURSIVE NewtonSqrt(_, _)
NewtonSqrt(n, x) ==
  LET y == (x + n \div x) \div 2 IN
  IF y >= x THEN x ELSE NewtonSqrt(n, y)

ISqrt(n) == IF n = 0 THEN 0 ELSE NewtonSqrt(n, n)

\* math.sqrt of a non-negative number.
SqrtFp(v) == ISqrt(v * Scale)

\* atan on [0, tan(pi/8)]: the Taylor polynomial up to the ninth power.
AtanSeries(u) ==
  LET u2 == MulFp(u, u)
      p3 == MulFp(u2, u)
      p5 == MulFp(p3, u2)
      p7 == MulFp(p5, u2)
      p9 == MulFp(p7, u2)
  IN  u - p3 \div 3 + p5 \div 5 - p7 \div 7 + p9 \div 9

\* atan on [0, 1], halving the angle first: atan t = 2 atan (t / (1 + sqrt(1 + t^2))).
AtanFp(t) == 2 * AtanSeries(DivFp(t, Scale + SqrtFp(Scale + MulFp(t, t))))

\* math.atan2(y, x) for y >= 0 and x >= 0.
Atan2Fp(y, x) ==
  IF y = 0 THEN 0
  ELSE IF y <= x THEN AtanFp(DivFp(y, x))
  ELSE HalfPiFp - AtanFp(DivFp(x, y))

\* Earth radius in kilometres.
R == 6371

\* haversine(coord1, coord2), coordinates in whole degrees: the great circle
\* distance in whole kilometres.  The haversine term a is held to twice the
\* digits (as a * Scale^2), so that its square roots keep Scale's precision.
HaversineA(coord1, coord2) ==
  LET lat1 == coord1[1]
      lon1 == coord1[2]
      lat2 == coord2[1]
      lon2 == coord2[2]
      phi1 == Radians(lat1)
      phi2 == Radians(lat2)
      dphi == Radians(lat2 - lat1)
      dlambda == Radians(lon2 - lon1)
      s1 == SinFp(Sgn(dphi) * (Abs(dphi) \div 2))
      s2 == SinFp(Sgn(dlambda) * (Abs(dlambda) \div 2))
  IN  s1 * s1 + MulFp(MulFp(CosFp(phi1), CosFp(phi2)), Abs(s2)) * Abs(s2)

haversine(coord1, coord2) ==
  LET a == HaversineA(coord1, coord2)
      c == 2 * Atan2Fp(ISqrt(a), ISqrt(Scale * Scale - a))
  IN  (R * c) \div Scale

(***************************************************************************)
(* UIC codes as the tables hold them: an integer (a JSON number, or the    *)
(* Int64 column of train_app.load_data), a float (a numeric column that    *)
(* was not cast), a string (the station list's code_uic), or missing.      *)
(***************************************************************************)
IntCode(n) == [k |-> "int", n |-> n, s |-> <<>>]

FloatCode(n) == [k |-> "float", n |-> n, s |-> <<>>]

StrCode(s) == [k |-> "str", n |-> 0, s |-> s]

NaCode == [k |-> "na", n |-> 0, s |-> <<>>]

\* str() of a non-negative integer.
RECURSIVE IntStr(_)
IntStr(n) ==
  IF n < 10 THEN <<Digits[n + 1]>>
  ELSE IntStr(n \div 10) \o <<Digits[(n % 10) + 1]>>

\* str() of a code: the decimal digits of an integer, those of a float
\* followed by ".0", a string itself, "<NA>" for a missing value.
Str(v) ==
  IF v.k = "int" THEN IntStr(v.n)
  ELSE IF v.k = "float" THEN IntStr(v.n) \o <<".", "0">>
  ELSE IF v.k = "str" THEN v.s
  ELSE <<"<NA>">>

(***************************************************************************)
(* Station rows and fare rows.                                             *)
(***************************************************************************)
\* A geo_point_2d cell: a [lat, lon] list, or missing.
GeoPoint(lat, lon) == [k |-> "list", v |-> <<lat, lon>>]

NoGeo == [k |-> "nan", v |-> <<>>]

Station(code, libelle, geo) ==
  [code_uic |-> code, libelle |-> libelle, geo_point_2d |-> geo]

Fare(origine, origine_uic, destination, destination_uic, prix_min, prix_max) ==
  [transporteur |-> <<"INTERCITES">>,
   origine |-> origine, origine_uic |-> origine_uic,
   destination |-> destination, destination_uic |-> destination_uic,
   prix_min |-> prix_min, prix_max |-> prix_max]

FareColumns ==
  {"transporteur", "origine", "origine_uic", "destination", "destination_uic",
   "prix_min", "prix_max"}

DerivedColumns == {"distance_km", "cost_per_km_min", "cost_per_km_max"}

\* Whole-degree coordinates near Paris and Marseille.
Paris == GeoPoint(49, 2)

Marseille == GeoPoint(43, 5)

\* The station rows of the model: a code twice with different coordinates,
\* two codes with the same coordinates, a code written with a leading zero,
\* a numeric code, a row without code and a row without coordinates.
StationRows ==
  { Station(StrCode(<<"8", "7">>), <<"Paris">>, Paris),
    Station(StrCode(<<"8", "7">>), <<"Marseille">>, Marseille),
    Station(StrCode(<<"0", "8", "7">>), <<"Marseille">>, Marseille),
    Station(IntCode(88), <<"Paris">>, Paris),
    Station(NaCode, <<"Marseille">>, Marseille),
    Station(IntCode(88), <<"Paris">>, NoGeo) }

\* The fare rows of the model: codes as integers, as a float and as a string,
\* a code no station has, origin equal to destination, prices in both orders
\* a missing price, and a price that is text.
FareRows ==
  { Fare(<<"A">>, IntCode(87), <<"B">>, IntCode(88), NumCell(10), NumCell(20)),
    Fare(<<"B">>, StrCode(<<"8", "8">>), <<"A">>, IntCode(87), NumCell(20), NumCell(10)),
    Fare(<<"A">>, IntCode(87), <<"A">>, IntCode(87), NumCell(10), NumCell(20)),
    Fare(<<"A">>, IntCode(87), <<"C">>, IntCode(99), NumCell(10), NumCell(20)),
    Fare(<<"A">>, FloatCode(87), <<"B">>, IntCode(88), NumCell(10), NumCell(20)),
    Fare(<<"B">>, IntCode(88), <<"A">>, IntCode(87), NaN, NumCell(20)),
    Fare(<<"A">>, IntCode(87), <<"B">>, IntCode(88), StrCell(<<"abc">>), NumCell(20)) }

(***************************************************************************)
(* analyse_pricing.                                                        *)
(***************************************************************************)
\* df_stations.dropna(subset=["code_uic", "geo_point_2d"]) keeps a row.
KeptStation(row) == row.code_uic.k # "na" /\ row.geo_point_2d.k # "nan"

\* What coord_map.get gives: a tuple, or None.
SomeCoord(t) == [some |-> TRUE, v |-> t]

NoneCoord == [some |-> FALSE, v |-> <<>>]

\* A variant of the dictionary store that keeps the first coordinates of a key.
PutFirst(m, key, val) ==
  [x \in DOMAIN m \cup {key} |-> IF x \in DOMAIN m THEN m[x] ELSE val]

\* coord_map[key] = val.
Put(m, key, val) ==
  [x \in DOMAIN m \cup {key} |-> IF x = key THEN val ELSE m[x]]

\* The dictionary after the first i rows of the station table.
RECURSIVE BuildCoordMap(_, _)
BuildCoordMap(stations, i) ==
  IF i = 0 THEN <<>>
  ELSE LET m == BuildCoordMap(stations, i - 1)
           row == stations[i]
       IN  IF KeptStation(row)
           THEN Put(m, Str(row.code_uic), row.geo_point_2d.v)
           ELSE m

\* coord_map.get(key).
Get(m, key) == IF key \in DOMAIN m THEN SomeCoord(m[key]) ELSE NoneCoord

\* A variant of the lookup with a default: coord_map.get(key, (0.0, 0.0)).
GetLookupDefault(m, key) == IF key \in DOMAIN m THEN SomeCoord(m[key]) ELSE SomeCoord(<<0, 0>>)

\* The lookup of a fare row's code in coord_map.
GetLookup(m, key) == Get(m, key)

\* Python's truth value of coord_map.get's result: None and the empty tuple
\* are false.
Truthy(coord) == coord.some /\ Len(coord.v) > 0

\* A variant of the guard that lets a zero distance through.
DistanceUsableNoZeroGuard(dist) == dist.k = "num"

\* "dist and not pd.isna(dist) and dist > 0", dist a float: a distance in
\* whole kilometres, or NaN.
DistanceUsable(dist) == dist.k = "num" /\ dist.n # 0 /\ dist.n > 0

\* What a division by zero leaves in place of a value: Python raises
\* ZeroDivisionError.
ZeroDivision == [k |-> "zerodiv", s |-> <<>>, n |-> 0]

\* What math.sqrt of a negative number leaves in place of a value: Python
\* raises ValueError.
ValueError == [k |-> "valueerror", s |-> <<>>, n |-> 0]

\* What a division of a string leaves in place of a value: Python raises
\* TypeError.
TypeError == [k |-> "typeerror", s |-> <<>>, n |-> 0]

\* A variant with the operands exchanged: dist / price.
FloatDivSwapped(price, dist) ==
  IF price.k # "num" THEN NaN
  ELSE IF price.n = 0 THEN ZeroDivision
  ELSE NumCell((dist.n * Scale) \div price.n)

\* row[price] / dist, the price a float, NaN or a string as the table holds
\* it, the distance a float: the cost in 1/Scale euro per kilometre.  A
\* string has no division by a float.
FloatDiv(price, dist) ==
  IF price.k = "str" THEN TypeError
  ELSE IF dist.n = 0 THEN ZeroDivision
  ELSE IF price.k # "num" THEN NaN
  ELSE NumCell((price.n * Scale) \div dist.n)

\* math.sqrt(1 - a) raises ValueError when rounding takes a above 1.
HaversineRaises(coord1, coord2) == HaversineA(coord1, coord2) > Scale * Scale

\* The distance of one fare row: the lookups and haversine.
RowDistance(row, coord_map) ==
  LET coord1 == GetLookup(coord_map, Str(row.origine_uic))
      coord2 == GetLookup(coord_map, Str(row.destination_uic))
  IN  IF ~(Truthy(coord1) /\ Truthy(coord2)) THEN NaN
      ELSE IF HaversineRaises(coord1.v, coord2.v) THEN ValueError
      ELSE NumCell(haversine(coord1.v, coord2.v))

\* "row[price] / dist if dist and not pd.isna(dist) and dist > 0 else nan".
RowCost(price, dist) == IF DistanceUsable(dist) THEN FloatDiv(price, dist) ELSE NaN

\* The exception one turn of the loop raises, if any.
RowError(dist, avg_min, avg_max) ==
  IF dist.k = "valueerror" THEN "ValueError"
  ELSE IF avg_min.k = "typeerror" THEN "TypeError"
  ELSE IF avg_min.k = "zerodiv" THEN "ZeroDivisionError"
  ELSE IF avg_max.k = "typeerror" THEN "TypeError"
  ELSE IF avg_max.k = "zerodiv" THEN "ZeroDivisionError"
  ELSE "none"

\* The rest of the turn, the distance known: the two costs per kilometre.
PricedWith(row, dist) ==
  [error |-> RowError(dist, RowCost(row.prix_min, dist), RowCost(row.prix_max, dist)),
   derived |-> [distance_km |-> dist, cost_per_km_min |-> RowCost(row.prix_min, dist),
                cost_per_km_max |-> RowCost(row.prix_max, dist)]]

\* One turn of the loop over the fare rows.
PricedRow(row, coord_map) == PricedWith(row, RowDistance(row, coord_map))

\* A variant in which the name is only bound to the caller's object:
\* "df = df_price" instead of "df = df_price.copy()".
CopyFrameShared(t) == [shared |-> TRUE, t |-> t]

\* DataFrame.copy(): a new object with the same content.
CopyFrame(t) == [shared |-> FALSE, t |-> t]

\* The function's own parameter: the caller's object itself.
SameFrame(t) == [shared |-> TRUE, t |-> t]

\* The caller's table once `after` has been assigned into the object `ref`:
\* the assignment shows in the caller's table when the object is shared.
CallerFrame(before, ref, after) == IF ref.shared THEN after ELSE before

\* A variant of the result that keeps only the rows with a distance (an
\* inner join).
OutputRowsMatchedOnly(fares, derived) ==
  LET all == [i \in 1..Len(fares) |-> derived[i] @@ fares[i]] IN
  SelectSeq(all, LAMBDA r : r.distance_km.k = "num")

\* df_price.copy() with the three derived columns assigned.
OutputRows(fares, derived) ==
  [i \in 1..Len(fares) |-> derived[i] @@ fares[i]]

\* The first error of the loop, if any.
FirstError(priced) ==
  IF \A i \in 1..Len(priced) : priced[i].error = "none" THEN "none"
  ELSE priced[CHOOSE i \in 1..Len(priced) :
                /\ priced[i].error # "none"
                /\ \A j \in 1..(i - 1) : priced[j].error = "none"].error

analyse_pricing(fares, stations) ==
  LET coord_map == BuildCoordMap(stations, Len(stations))
      priced == [i \in 1..Len(fares) |-> PricedRow(fares[i], coord_map)]
      error == FirstError(priced)
      out == OutputRows(fares, [i \in 1..Len(fares) |-> priced[i].derived])
  IN  [done |-> TRUE,
       error |-> error,
       coord_map |-> coord_map,
       rows |-> IF error = "none" THEN out ELSE <<>>,
       input |-> IF error = "none" THEN CallerFrame(fares, CopyFrame(fares), out)
                 ELSE fares]

NoPricing ==
  [done |-> FALSE, error |-> "none", coord_map |-> <<>>, rows |-> <<>>, input |-> <<>>]

(***************************************************************************)
(* analyse_ridership.  The table is one load_ridership_csv returned: the   *)
(* yearly-total columns hold numbers and missing values.  A Series or a    *)
(* table with an index is a sequence of entries that carry their label.    *)
(***************************************************************************)
MaxRows == 11

MaxWideRows == 2

nom_gare == <<"nom_gare">>

non_voyageurs == <<"non_voyageurs">>

Y2025 == <<"total_voyageurs", "_", "2", "0", "2", "5">>

YearPrefix == <<"total_voyageurs", "_">>

\* Two more names with the prefix and four digits at the end:
\* total_voyageurs_tgv_2023 and total_voyageurs_12345.
Ytgv2023 == YearPrefix \o <<"tgv", "_", "2", "0", "2", "3">>

Y12345 == YearPrefix \o <<"1", "2", "3", "4", "5">>

Range(s) == {s[i] : i \in DOMAIN s}

Min(S) == CHOOSE x \in S : \A y \in S : x <= y

Max(S) == CHOOSE x \in S : \A y \in S : x >= y

\* The elements of a set of numbers, in ascending order.
Ascending(S) ==
  LET rank == [i \in S |-> Cardinality({j \in S : j < i}) + 1] IN
  [p \in 1..Cardinality(S) |-> CHOOSE i \in S : rank[i] = p]

\* s[:n], DataFrame.head(n).
Take(s, n) == SubSeq(s, 1, IF n < Len(s) THEN n ELSE Len(s))

\* str.startswith for a prefix of several tokens.
StartsWithSeq(s, prefix) == Len(s) >= Len(prefix) /\ SubSeq(s, 1, Len(prefix)) = prefix

\* col[-4:]: the last four characters.  They are the last four tokens when
\* these are digits; otherwise some character of them is not a digit.
LastFour(col) == SubSeq(col, IF Len(col) > 4 THEN Len(col) - 3 ELSE 1, Len(col))

\* str.isdigit.
IsDigits(s) == Len(s) > 0 /\ \A i \in 1..Len(s) : IsDigit(s[i])

\* col.startswith("total_voyageurs_") and col[-4:].isdigit()
IsYearColumn(col) == StartsWithSeq(col, YearPrefix) /\ IsDigits(LastFour(col))

year_cols(df) == SelectSeq(df.header, IsYearColumn)

\* The position of a column of the table (column names are unique).
ColumnIndex(header, col) == CHOOSE j \in 1..Len(header) : header[j] = col

\* df[col]: the cells of one column, by row.
Column(df, col) == [i \in 1..Len(df.rows) |-> df.rows[i][ColumnIndex(df.header, col)]]

\* A variant of the sum in which a missing cell makes the sum missing
\* (skipna=False), shown as 0.
SumNaPoisons(cells) ==
  LET RECURSIVE Go(_)
      Go(i) == IF i = 0 THEN 0 ELSE cells[i].n + Go(i - 1)
  IN  IF \E i \in 1..Len(cells) : cells[i].k # "num" THEN 0 ELSE Go(Len(cells))

\* Series.sum(): the sum of the cells that are not missing, 0 when there is
\* none.
SumSkipNa(cells) ==
  LET RECURSIVE Go(_)
      Go(i) == IF i = 0 THEN 0
               ELSE (IF cells[i].k = "num" THEN cells[i].n ELSE 0) + Go(i - 1)
  IN  Go(Len(cells))

\* str.extract(r"(\d{4})"): the first run of four digits of the name, a
\* missing value when there is none.
ExtractYear(col) ==
  LET starts == {p \in 1..(Len(col) - 3) : IsDigits(SubSeq(col, p, p + 3))} IN
  IF starts = {} THEN <<>> ELSE SubSeq(col, Min(starts), Min(starts) + 3)

\* df[year_cols].sum() with its index replaced by the extracted years.
ColumnTotals(df) ==
  LET yc == year_cols(df) IN
  [i \in 1..Len(yc) |->
     [year |-> ExtractYear(yc[i]), total_passengers |-> SumSkipNa(Column(df, yc[i]))]]

\* Series.sort_index(): ascending by label; the labels are strings of four
\* digits, whose order is that of their values.
SortIndex(totals) ==
  LET Rank(i) ==
        Cardinality({j \in 1..Len(totals) :
                       \/ DigitsValue(totals[j].year) < DigitsValue(totals[i].year)
                       \/ (totals[j].year = totals[i].year /\ j < i)}) + 1
  IN  [p \in 1..Len(totals) |-> totals[CHOOSE i \in 1..Len(totals) : Rank(i) = p]]

\* sorted([int(c[-4:]) for c in year_cols])[-1]
last_year(yc) == Max({DigitsValue(LastFour(yc[i])) : i \in 1..Len(yc)})

\* A variant of the selection that always takes the largest year.
RankingColumnLatest(df) == YearPrefix \o IntStr(last_year(year_cols(df)))

\* The column the ranking is made on: total_voyageurs_2024 when the table
\* has it, else f"total_voyageurs_{last_year}".
RankingColumn(df) ==
  IF Y2024 \in Range(df.header) THEN Y2024
  ELSE YearPrefix \o IntStr(last_year(year_cols(df)))

\* The exception analyse_ridership raises, if any: sorted([])[-1] is an
\* IndexError, the selection of a column the table lacks a KeyError.
RidershipError(df) ==
  IF Y2024 \in Range(df.header)
  THEN (IF nom_gare \in Range(df.header) THEN "none" ELSE "KeyError")
  ELSE IF Len(year_cols(df)) = 0 THEN "IndexError"
  ELSE IF nom_gare \in Range(df.header) /\ RankingColumn(df) \in Range(df.header)
       THEN "none" ELSE "KeyError"

\* The number of rows nlargest is asked for.
TopN == 10

\* A variant of the order with keep="last": among equal values the last
\* occurrence first.
SortDescendingLastFirst(cells, idx) ==
  LET Before(j, i) ==
        \/ cells[j].n > cells[i].n
        \/ (cells[j].n = cells[i].n /\ j > i)
      rank == [i \in idx |-> Cardinality({j \in idx : Before(j, i)}) + 1]
  IN  [p \in 1..Cardinality(idx) |-> CHOOSE i \in idx : rank[i] = p]

\* The row indices `idx`, by descending value; keep="first": among equal
\* values the first occurrence first.
SortDescending(cells, idx) ==
  LET Before(j, i) ==
        \/ cells[j].n > cells[i].n
        \/ (cells[j].n = cells[i].n /\ j < i)
      rank == [i \in idx |-> Cardinality({j \in idx : Before(j, i)}) + 1]
  IN  [p \in 1..Cardinality(idx) |-> CHOOSE i \in idx : rank[i] = p]

\* A variant of nlargest that drops the rows with a missing value.
nlargestDropNa(n, cells) ==
  LET valid == {i \in 1..Len(cells) : cells[i].k = "num"} IN
  Take(SortDescending(cells, valid), n)

\* DataFrame.nlargest(n, col) on a numeric column, keep="first": the row
\* indices of the result.  With n >= the row count the whole column is
\* sorted descending, missing values last, and cut to n; else the n largest
\* values are taken, followed by the rows with a missing value, the whole
\* cut to n.
nlargest(n, cells) ==
  LET valid == {i \in 1..Len(cells) : cells[i].k = "num"}
      missing == {i \in 1..Len(cells) : cells[i].k # "num"}
  IN  IF n >= Len(cells)
      THEN Take(SortDescending(cells, valid) \o Ascending(missing), n)
      ELSE Take(Take(SortDescending(cells, valid), n) \o Ascending(missing), n)

\* df[["nom_gare", col]]: a new table with the two columns.
SelectColumns(df, col) ==
  [header |-> <<nom_gare, col>>,
   rows |-> [i \in 1..Len(df.rows) |->
              <<df.rows[i][ColumnIndex(df.header, nom_gare)],
                df.rows[i][ColumnIndex(df.header, col)]>>]]

\* top2024[col] = pd.to_numeric(top2024[col], errors="coerce")
CoerceColumn(df, col) ==
  [header |-> df.header,
   rows |-> [i \in 1..Len(df.rows) |->
              [j \in 1..Len(df.header) |->
                 IF df.header[j] = col THEN ToNumericCell(df.rows[i][j]) ELSE df.rows[i][j]]]]

\* The name of the value column of top10: the fallback branch renames it.
TopColumn(df) == IF Y2024 \in Range(df.header) THEN Y2024 ELSE <<"total_voyageurs">>

\* top10: the selected rows, each with its index label, name and value.
TopRows(top2024, col) ==
  LET picked == nlargest(TopN, Column(top2024, col))
      names == Column(top2024, nom_gare)
      values == Column(top2024, col)
  IN  [p \in 1..Len(picked) |->
         [index |-> picked[p], nom_gare |-> names[picked[p]], value |-> values[picked[p]]]]

analyse_ridership(df) ==
  LET error == RidershipError(df)
      col == RankingColumn(df)
      top2024 == CopyFrame(SelectColumns(df, col))
      coerced == CoerceColumn(top2024.t, col)
  IN  IF error # "none"
      THEN [done |-> TRUE, error |-> error, totals |-> <<>>, by |-> <<>>,
            column |-> <<>>, top10 |-> <<>>, input |-> df]
      ELSE [done |-> TRUE, error |-> "none",
            totals |-> SortIndex(ColumnTotals(df)),
            by |-> col,
            column |-> TopColumn(df),
            top10 |-> TopRows(coerced, col),
            input |-> CallerFrame(df, top2024, coerced)]

NoRidership ==
  [done |-> FALSE, error |-> "none", totals |-> <<>>, by |-> <<>>,
   column |-> <<>>, top10 |-> <<>>, input |-> NoDf]

(***************************************************************************)
(* analyse_punctuality.  The table is one load_json_records returned: a    *)
(* cell is a number, a string or a missing value.  A float is held in      *)
(* fixed point, in 1/Scale.                                                *)
(***************************************************************************)
MaxRecords == 2

\* The number of times analyse_punctuality is called on the same table.
MaxAnalyses == 2

nb_train_prevu == <<"nb_train_prevu">>

nb_annulation == <<"nb_annulation">>

retard_moyen_arrivee == <<"retard_moyen_arrivee">>

retard_moyen_trains_retard_sup15 == <<"retard_moyen_trains_retard_sup15">>

CausePrefix == "prct_cause_"

CauseNames == <<"infra", "externe", "reseau", "gestion", "exploit">>

\* The columns analyse_punctuality coerces to numbers.
numeric_cols ==
  { nb_train_prevu, nb_annulation, retard_moyen_arrivee,
    <<"nb_train_retard_sup_15">>, <<"nb_train_retard_depart">>,
    <<"nb_train_retard_arrivee">>, retard_moyen_trains_retard_sup15 }
  \cup {<<CausePrefix, CauseNames[i]>> : i \in 1..Len(CauseNames)}

\* The columns of the punctuality sample the analysis reads, and one text
\* column.
PunctualityHeader ==
  << <<"service">>, nb_train_prevu, nb_annulation, retard_moyen_arrivee,
     retard_moyen_trains_retard_sup15 >>
  \o [i \in 1..Len(CauseNames) |-> <<CausePrefix, CauseNames[i]>>]

\* What numpy leaves for x / 0 with x > 0.
Inf == [k |-> "inf", s |-> <<>>, n |-> 0]

\* A variant of the coercion that also divides by 100, whole part kept:
\* to_numeric(...) // 100.
ToNumericColumnsRescaled(df) ==
  [header |-> df.header,
   rows |-> [i \in 1..Len(df.rows) |->
              [j \in 1..Len(df.header) |->
                 IF df.header[j] \in numeric_cols
                 THEN (IF ToNumericCell(df.rows[i][j]).k = "num"
                       THEN NumCell(ToNumericCell(df.rows[i][j]).n \div 100)
                       ELSE NaN)
                 ELSE df.rows[i][j]]]]

\* "for col in numeric_cols: if col in df.columns:
\*      df[col] = pd.to_numeric(df[col], errors='coerce')"
ToNumericColumns(df) ==
  [header |-> df.header,
   rows |-> [i \in 1..Len(df.rows) |->
              [j \in 1..Len(df.header) |->
                 IF df.header[j] \in numeric_cols
                 THEN ToNumericCell(df.rows[i][j])
                 ELSE df.rows[i][j]]]]

\* The number of cells that are not missing.
CountNotNa(cells) == Cardinality({i \in 1..Len(cells) : cells[i].k = "num"})

\* A variant of the mean in which a missing cell counts as zero.
MeanNaAsZero(cells) ==
  IF Len(cells) = 0 THEN NaN
  ELSE NumCell((SumSkipNa(cells) * Scale) \div Len(cells))

\* Series.mean(): the mean of the cells that are not missing, in 1/Scale;
\* missing when there is none.
Mean(cells) ==
  IF CountNotNa(cells) = 0 THEN NaN
  ELSE NumCell((SumSkipNa(cells) * Scale) \div CountNotNa(cells))

\* A variant of the rate: the mean of the rows' own ratios.
MeanOfRatios(num, den) ==
  LET both == {i \in 1..Len(num) : num[i].k = "num" /\ den[i].k = "num" /\ den[i].n > 0}
      ratios == [p \in 1..Cardinality(both) |->
                   NumCell((num[Ascending(both)[p]].n * Scale) \div den[Ascending(both)[p]].n)]
  IN  IF both = {} THEN NaN ELSE NumCell(SumSkipNa(ratios) \div Cardinality(both))

\* A variant of the rate that gives 0 when no train was scheduled.
CancellationRateOrZero(num, den) ==
  IF SumSkipNa(den) = 0 THEN NumCell(0)
  ELSE NumCell((SumSkipNa(num) * Scale) \div SumSkipNa(den))

\* df["nb_annulation"].sum() / df["nb_train_prevu"].sum(): a division of
\* numpy numbers, in 1/Scale; x / 0 is inf, 0 / 0 is nan, and nothing is
\* raised.
CancellationRate(num, den) ==
  IF SumSkipNa(den) = 0 THEN (IF SumSkipNa(num) = 0 THEN NaN ELSE Inf)
  ELSE NumCell((SumSkipNa(num) * Scale) \div SumSkipNa(den))

\* cause_cols = [c for c in df.columns if c.startswith("prct_cause_")]
cause_cols(df) == SelectSeq(df.header, LAMBDA c : StartsWith(c, CausePrefix))

\* The exception analyse_punctuality raises, if any: df[col] of a column
\* the table lacks is a KeyError.
PunctualityError(df) ==
  IF {retard_moyen_arrivee, retard_moyen_trains_retard_sup15,
      nb_annulation, nb_train_prevu} \subseteq Range(df.header)
  THEN "none" ELSE "KeyError"

analyse_punctuality(df) ==
  LET coerced == ToNumericColumns(df)
      cc == cause_cols(coerced)
  IN  [done |-> TRUE,
       error |-> PunctualityError(df),
       summary |->
         IF PunctualityError(df) # "none" THEN <<>>
         ELSE [avg_delay_arrival |-> Mean(Column(coerced, retard_moyen_arrivee)),
               avg_delay_trains_sup15 |->
                 Mean(Column(coerced, retard_moyen_trains_retard_sup15)),
               cancellation_rate |->
                 CancellationRate(Column(coerced, nb_annulation),
                                  Column(coerced, nb_train_prevu))],
       cause_means |->
         IF PunctualityError(df) # "none" THEN <<>>
         ELSE [i \in 1..Len(cc) |-> [cause |-> cc[i], mean |-> Mean(Column(coerced, cc[i]))]],
       input |-> CallerFrame(df, SameFrame(df), coerced)]

\* What the state keeps of the calls of analyse_punctuality: the last
\* call's return, the number of calls, and the table as the caller held it
\* before the first call.
NoPunctuality ==
  [done |-> FALSE, error |-> "none", summary |-> <<>>, cause_means |-> <<>>, input |-> NoDf,
   calls |-> 0, given |-> NoDf]

(***************************************************************************)
(* load_json_records.  A JSON object is given by the set of its keys and   *)
(* the values of the keys the function reads; a fields map is a set of     *)
(* <<key, cell>> pairs.  The table is given by its set of columns and its  *)
(* rows, each a function of the columns.                                   *)
(***************************************************************************)
MaxJsonRecords == 3

Envelope(records) == [wellformed |-> TRUE, keys |-> {"nhits", "records"}, records |-> records]

\* A document without the records key, and a text that is not JSON.
NoRecordsKey == [wellformed |-> TRUE, keys |-> {"nhits"}, records |-> <<>>]

NotJson == [wellformed |-> FALSE, keys |-> {}, records |-> <<>>]

JsonRecord(fields) == [keys |-> {"recordid", "fields"}, fields |-> fields]

NoFieldsKey == [keys |-> {"recordid"}, fields |-> {}]

\* The records of the model: fields maps with both keys, one key and none,
\* and a record without the fields key.
JsonRecords ==
  { JsonRecord({}),
    JsonRecord({<<"origine", StrCell(<<"A">>)>>}),
    JsonRecord({<<"prix_min", NumCell(15)>>}),
    JsonRecord({<<"origine", StrCell(<<"A">>)>>, <<"prix_min", NumCell(15)>>}),
    JsonRecord({<<"origine", StrCell(<<"B">>)>>, <<"prix_min", StrCell(<<"abc">>)>>}),
    NoFieldsKey }

FieldKeys(fields) == {kv[1] : kv \in fields}

FieldValue(fields, key) == (CHOOSE kv \in fields : kv[1] = key)[2]

NoTable == [columns |-> {}, rows |-> <<>>]

\* A variant of the lookup with a default: rec.get("fields", {}).
RecordFieldsOrEmpty(rec) ==
  [raised |-> FALSE, v |-> IF "fields" \in rec.keys THEN rec.fields ELSE {}]

\* rec["fields"]: a KeyError when the record has no such key.
RecordFields(rec) ==
  [raised |-> "fields" \notin rec.keys, v |-> rec.fields]

\* A variant of the columns: the keys of the first record only.
ColumnsOfFirst(records) ==
  IF Len(records) = 0 THEN {} ELSE FieldKeys(records[1])

\* The columns of pd.DataFrame(records): every key of every record.
Columns(records) == UNION {FieldKeys(records[i]) : i \in 1..Len(records)}

\* pd.DataFrame(records), records a list of dictionaries: one row per
\* dictionary, NaN where a dictionary lacks a column.
DataFrame(records) ==
  [columns |-> Columns(records),
   rows |-> [i \in 1..Len(records) |->
              [c \in Columns(records) |->
                 IF c \in FieldKeys(records[i]) THEN FieldValue(records[i], c) ELSE NaN]]]

load_json_records(data) ==
  LET recs == [i \in 1..Len(data.records) |-> RecordFields(data.records[i])] IN
  IF ~data.wellformed
  THEN [done |-> TRUE, error |-> "JSONDecodeError", table |-> NoTable]
  ELSE IF "records" \notin data.keys \/ \E i \in 1..Len(recs) : recs[i].raised
  THEN [done |-> TRUE, error |-> "KeyError", table |-> NoTable]
  ELSE [done |-> TRUE, error |-> "none",
        table |-> DataFrame([i \in 1..Len(recs) |-> recs[i].v])]

NoLoaded == [done |-> FALSE, error |-> "none", table |-> NoTable]

(***************************************************************************)
(* estimate_emissions.  The distance is in 1/Scale kilometre, the          *)
(* emissions in 1/Scale kilogram of CO2.                                   *)
(***************************************************************************)
MaxDistanceKm == 100

train_factor == 14

car_factor == 55

\* A variant with the two factors exchanged.
estimate_emissionsExchanged(d) ==
  [done |-> TRUE,
   train_emissions |-> (d * car_factor) \div 1000,
   car_emissions |-> (d * train_factor) \div 1000]

estimate_emissions(d) ==
  [done |-> TRUE,
   train_emissions |-> (d * train_factor) \div 1000,
   car_emissions |-> (d * car_factor) \div 1000]

NoEmissions == [done |-> FALSE, train_emissions |-> 0, car_emissions |-> 0]

\* The distances of the model: the half kilometres up to the bound, both
\* signs.
Distances == {k * (Scale \div 2) : k \in (-2 * MaxDistanceKm)..(2 * MaxDistanceKm)}

(***************************************************************************)
(* haversine as a call: it raises when math.sqrt is given a negative       *)
(* number.                                                                 *)
(***************************************************************************)
HaversineCall(coord1, coord2) ==
  IF HaversineRaises(coord1, coord2)
  THEN [raised |-> TRUE, km |-> 0]
  ELSE [raised |-> FALSE, km |-> haversine(coord1, coord2)]

NoDistance == [done |-> FALSE, there |-> [raised |-> FALSE, km |-> 0],
               back |-> [raised |-> FALSE, km |-> 0]]

\* Latitudes and longitudes of the model, in whole degrees, the ends of the
\* valid ranges among them.
Latitudes == {-90, -82, -45, 0, 45, 82, 90}

Longitudes == {-180, -90, 0, 90, 180}

\* The three functions before they are called.
FunctionsIdle ==
  /\ document = NotJson
  /\ loaded = NoLoaded
  /\ distance_km = 0
  /\ emissions = NoEmissions
  /\ coords = <<<<0, 0>>, <<0, 0>>>>
  /\ great_circle = NoDistance

\* The loader and the three analyses before they are called.
ProgramIdle ==
  /\ fs = [p \in Paths |-> Missing]
  /\ calls = 0
  /\ lastCall = NoCall
  /\ dataTouched = FALSE
  /\ df_stations = <<>>
  /\ df_price = <<>>
  /\ pricing = NoPricing
  /\ df_ridership = NoDf
  /\ ridership = NoRidership
  /\ df_punctuality = NoDf
  /\ punctuality = NoPunctuality

(***************************************************************************)
(* The pricing state machine: the two tables are loaded row by row, then   *)
(* analyse_pricing runs on them.  The tables carry their columns even when *)
(* they have no row.                                                       *)
(***************************************************************************)
PricingInit ==
  /\ fs = [p \in Paths |-> Missing]
  /\ calls = 0
  /\ lastCall = NoCall
  /\ dataTouched = FALSE
  /\ df_stations = <<>>
  /\ df_price = <<>>
  /\ pricing = NoPricing
  /\ df_ridership = NoDf
  /\ ridership = NoRidership
  /\ df_punctuality = NoDf
  /\ punctuality = NoPunctuality
  /\ FunctionsIdle

AddStation(row) ==
  /\ ~pricing.done
  /\ Len(df_stations) < MaxStations
  /\ df_stations' = Append(df_stations, row)
  /\ UNCHANGED <<df_price, pricing>>
  /\ UNCHANGED loaderVars
  /\ UNCHANGED <<ridershipVars, punctualityVars, functionVars>>

AddFare(row) ==
  /\ ~pricing.done
  /\ Len(df_price) < MaxFares
  /\ df_price' = Append(df_price, row)
  /\ UNCHANGED <<df_stations, pricing>>
  /\ UNCHANGED loaderVars
  /\ UNCHANGED <<ridershipVars, punctualityVars, functionVars>>

\* The caller's coercion of the two price columns before the analysis:
\* df_price[col] = pd.to_numeric(df_price[col], errors="coerce").
CoercePrices(fares) ==
  [i \in 1..Len(fares) |->
     [fares[i] EXCEPT !.prix_min = ToNumericCell(@), !.prix_max = ToNumericCell(@)]]

CoerceFares ==
  /\ ~pricing.done
  /\ CoercePrices(df_price) # df_price
  /\ df_price' = CoercePrices(df_price)
  /\ UNCHANGED <<df_stations, pricing>>
  /\ UNCHANGED loaderVars
  /\ UNCHANGED <<ridershipVars, punctualityVars, functionVars>>

AnalysePricing ==
  /\ ~pricing.done
  /\ pricing' = analyse_pricing(df_price, df_stations)
  /\ df_price' = pricing'.input
  /\ UNCHANGED df_stations
  /\ UNCHANGED loaderVars
  /\ UNCHANGED <<ridershipVars, punctualityVars, functionVars>>

PricingNext ==
  \/ \E row \in StationRows : AddStation(row)
  \/ \E row \in FareRows : AddFare(row)
  \/ CoerceFares
  \/ AnalysePricing

PricingSpec == PricingInit /\ [][PricingNext]_vars

(***************************************************************************)
(* The loader's state machine: calls of load_ridership_csv, and the        *)
(* outside world creating, overwriting and removing candidate files.       *)
(***************************************************************************)
LoaderInit ==
  /\ fs = [p \in Paths |-> Missing]
  /\ calls = 0
  /\ lastCall = NoCall
  /\ dataTouched = FALSE
  /\ df_stations = <<>>
  /\ df_price = <<>>
  /\ pricing = NoPricing
  /\ df_ridership = NoDf
  /\ ridership = NoRidership
  /\ df_punctuality = NoDf
  /\ punctuality = NoPunctuality
  /\ FunctionsIdle

LoadRidershipCsv(path) ==
  /\ calls < MaxCalls
  /\ \E remote \in RemoteOutcomes, w \in WriteOutcomes :
       \* the cache write's outcome matters only when the fetch gave a table
       /\ (RemoteFailed(remote) => w = "ok")
       /\ LET r == load_ridership_csv(fs, path, remote, w) IN
          /\ fs' = r.files
          /\ lastCall' = [raised |-> r.raised, path |-> r.path, remote |-> r.remote,
                          src |-> r.src, fetchTried |-> r.fetchTried,
                          cacheWrite |-> r.cacheWrite, df |-> r.df]
  /\ calls' = calls + 1
  /\ dataTouched' = FALSE
  /\ UNCHANGED pricingVars
  /\ UNCHANGED <<ridershipVars, punctualityVars, functionVars>>

EnvWriteFile(p, f) ==
  /\ calls < MaxCalls
  /\ fs[p] # f
  /\ fs' = [fs EXCEPT ![p] = f]
  /\ dataTouched' = (dataTouched \/ p = "data")
  /\ UNCHANGED <<calls, lastCall>>
  /\ UNCHANGED pricingVars
  /\ UNCHANGED <<ridershipVars, punctualityVars, functionVars>>

EnvRemoveFile(p) ==
  /\ calls < MaxCalls
  /\ fs[p].kind # "missing"
  /\ fs' = [fs EXCEPT ![p] = Missing]
  /\ dataTouched' = (dataTouched \/ p = "data")
  /\ UNCHANGED <<calls, lastCall>>
  /\ UNCHANGED pricingVars
  /\ UNCHANGED <<ridershipVars, punctualityVars, functionVars>>

LoaderNext ==
  \/ \E path \in PathArgs : LoadRidershipCsv(path)
  \/ \E p \in Paths, f \in {Unreadable} \cup {CsvFile(t) : t \in LocalTables} : EnvWriteFile(p, f)
  \/ \E p \in Paths : EnvRemoveFile(p)

LoaderSpec == LoaderInit /\ [][LoaderNext]_vars

(***************************************************************************)
(* The ridership state machine: a table as load_ridership_csv returns it   *)
(* is built row by row, then analyse_ridership runs on it.  Every table    *)
(* has up to MaxWideRows rows of any counts; the table with the one column *)
(* total_voyageurs_2024 grows further, to MaxRows rows, the further rows   *)
(* over two counts.                                                        *)
(***************************************************************************)
RidershipHeaders ==
  { <<nom_gare, non_voyageurs>>,
    <<nom_gare, Y2024>>,
    <<nom_gare, Y2023, Y2022>>,
    <<nom_gare, Y2025, Y2024>>,
    <<nom_gare, Ytgv2023>>,
    <<nom_gare, Y12345>> }

LongHeader == <<nom_gare, Y2024>>

\* The fields of the files: a count, or nothing.
RawCounts == {<<>>, <<"1", "0">>, <<"2", "0">>, <<"3", "0">>}

LongCounts == {<<"1", "0">>, <<"2", "0">>}

\* The row load_ridership_csv makes of one line of the file.
LoadedRow(header, raw) ==
  ConvertNumeric(ReadCsv([header |-> header, rows |-> <<raw>>])).rows[1]

RidershipInit ==
  /\ fs = [p \in Paths |-> Missing]
  /\ calls = 0
  /\ lastCall = NoCall
  /\ dataTouched = FALSE
  /\ df_stations = <<>>
  /\ df_price = <<>>
  /\ pricing = NoPricing
  /\ \E h \in RidershipHeaders : df_ridership = [header |-> h, rows |-> <<>>]
  /\ ridership = NoRidership
  /\ df_punctuality = NoDf
  /\ punctuality = NoPunctuality
  /\ FunctionsIdle

AddRidershipRow(vals) ==
  /\ ~ridership.done
  /\ Len(vals) = Len(df_ridership.header) - 1
  /\ \/ Len(df_ridership.rows) < MaxWideRows
     \/ /\ df_ridership.header = LongHeader
        /\ Len(df_ridership.rows) < MaxRows
        /\ vals[1] \in LongCounts
  /\ df_ridership' =
       [df_ridership EXCEPT !.rows =
          Append(@, LoadedRow(df_ridership.header,
                              << <<"Gare ">> \o IntStr(Len(df_ridership.rows) + 1) >> \o vals))]
  /\ UNCHANGED ridership
  /\ UNCHANGED <<loaderVars, pricingVars, punctualityVars, functionVars>>

AnalyseRidership ==
  /\ ~ridership.done
  /\ ridership' = analyse_ridership(df_ridership)
  /\ df_ridership' = ridership'.input
  /\ UNCHANGED <<loaderVars, pricingVars, punctualityVars, functionVars>>

RidershipNext ==
  \/ \E vals \in [1..1 -> RawCounts] \cup [1..2 -> RawCounts] : AddRidershipRow(vals)
  \/ AnalyseRidership

RidershipSpec == RidershipInit /\ [][RidershipNext]_vars

(***************************************************************************)
(* The punctuality state machine: a table is built record by record, then  *)
(* analyse_punctuality runs on it.                                         *)
(***************************************************************************)
Text(t) == StrCell(<<t>>)

PunctualityRow(service, prevu, annul, delay, delay15, causes) ==
  <<Text(service), prevu, annul, delay, delay15>> \o causes

PunctualityRows ==
  { PunctualityRow("International", NumCell(34), NumCell(0), NumCell(9), NumCell(0),
                   <<NumCell(10), NumCell(20), NumCell(30), NumCell(40), NumCell(0)>>),
    PunctualityRow("National", NumCell(167), NumCell(1), NumCell(20), NumCell(30),
                   <<NumCell(20), NumCell(20), NumCell(20), NumCell(20), NumCell(20)>>),
    PunctualityRow("National", NumCell(0), NumCell(0), NaN, NaN,
                   <<NaN, NaN, NaN, NaN, NaN>>),
    PunctualityRow("National", Text("abc"), NaN, Text("abc"), NumCell(10),
                   <<Text("abc"), NumCell(10), NaN, NumCell(30), NumCell(60)>>),
    PunctualityRow("National", StrCell(<<"3", "4">>), StrCell(<<"1">>), StrCell(<<"9">>), NumCell(0),
                   <<StrCell(<<"5", "0">>), NumCell(50), NumCell(0), NumCell(0), NumCell(0)>>),
    PunctualityRow("International", NumCell(0), NumCell(1), NumCell(5), NumCell(20),
                   <<NumCell(100), NumCell(0), NumCell(0), NumCell(0), NumCell(0)>>),
    PunctualityRow("International", NaN, NumCell(1), NumCell(7), NaN,
                   <<NumCell(0), NumCell(0), NumCell(0), NumCell(0), NumCell(100)>>) }

PunctualityInit ==
  /\ fs = [p \in Paths |-> Missing]
  /\ calls = 0
  /\ lastCall = NoCall
  /\ dataTouched = FALSE
  /\ df_stations = <<>>
  /\ df_price = <<>>
  /\ pricing = NoPricing
  /\ df_ridership = NoDf
  /\ ridership = NoRidership
  /\ df_punctuality = [header |-> PunctualityHeader, rows |-> <<>>]
  /\ punctuality = NoPunctuality
  /\ FunctionsIdle

AddRecord(row) ==
  /\ ~punctuality.done
  /\ Len(df_punctuality.rows) < MaxRecords
  /\ df_punctuality' = [df_punctuality EXCEPT !.rows = Append(@, row)]
  /\ UNCHANGED punctuality
  /\ UNCHANGED <<loaderVars, pricingVars, ridershipVars, functionVars>>

AnalysePunctuality ==
  /\ punctuality.calls < MaxAnalyses
  /\ Len(df_punctuality.rows) > 0
  /\ punctuality' =
       [calls |-> punctuality.calls + 1,
        given |-> IF punctuality.calls = 0 THEN df_punctuality ELSE punctuality.given]
       @@ analyse_punctuality(df_punctuality)
  /\ df_punctuality' = punctuality'.input
  /\ UNCHANGED <<loaderVars, pricingVars, ridershipVars, functionVars>>

PunctualityNext ==
  \/ \E row \in PunctualityRows : AddRecord(row)
  \/ AnalysePunctuality

PunctualitySpec == PunctualityInit /\ [][PunctualityNext]_vars

(***************************************************************************)
(* The record loader's state machine: a document is written record by      *)
(* record, then load_json_records runs on it.                              *)
(***************************************************************************)
JsonInit ==
  /\ ProgramIdle
  /\ document \in {Envelope(<<>>), NoRecordsKey, NotJson}
  /\ loaded = NoLoaded
  /\ distance_km = 0
  /\ emissions = NoEmissions
  /\ coords = <<<<0, 0>>, <<0, 0>>>>
  /\ great_circle = NoDistance

AddJsonRecord(rec) ==
  /\ ~loaded.done
  /\ "records" \in document.keys
  /\ Len(document.records) < MaxJsonRecords
  /\ document' = [document EXCEPT !.records = Append(@, rec)]
  /\ UNCHANGED loaded
  /\ UNCHANGED <<loaderVars, analysisVars, emissionVars, geoVars>>

LoadJsonRecords ==
  /\ ~loaded.done
  /\ loaded' = load_json_records(document)
  /\ UNCHANGED document
  /\ UNCHANGED <<loaderVars, analysisVars, emissionVars, geoVars>>

JsonNext ==
  \/ \E rec \in JsonRecords : AddJsonRecord(rec)
  \/ LoadJsonRecords

JsonSpec == JsonInit /\ [][JsonNext]_vars

(***************************************************************************)
(* estimate_emissions on each distance of the model.                       *)
(***************************************************************************)
EmissionsInit ==
  /\ ProgramIdle
  /\ document = NotJson
  /\ loaded = NoLoaded
  /\ distance_km \in Distances
  /\ emissions = NoEmissions
  /\ coords = <<<<0, 0>>, <<0, 0>>>>
  /\ great_circle = NoDistance

EstimateEmissions ==
  /\ ~emissions.done
  /\ emissions' = estimate_emissions(distance_km)
  /\ UNCHANGED distance_km
  /\ UNCHANGED <<loaderVars, analysisVars, jsonVars, geoVars>>

EmissionsNext == EstimateEmissions

EmissionsSpec == EmissionsInit /\ [][EmissionsNext]_vars

(***************************************************************************)
(* haversine on each pair of coordinates of the model, each way.           *)
(***************************************************************************)
GeoInit ==
  /\ ProgramIdle
  /\ document = NotJson
  /\ loaded = NoLoaded
  /\ distance_km = 0
  /\ emissions = NoEmissions
  /\ coords \in (Latitudes \X Longitudes) \X (Latitudes \X Longitudes)
  /\ great_circle = NoDistance

Haversine ==
  /\ ~great_circle.done
  /\ great_circle' = [done |-> TRUE,
                      there |-> HaversineCall(coords[1], coords[2]),
                      back |-> HaversineCall(coords[2], coords[1])]
  /\ UNCHANGED coords
  /\ UNCHANGED <<loaderVars, analysisVars, jsonVars, emissionVars>>

GeoNext == Haversine

GeoSpec == GeoInit /\ [][GeoNext]_vars


(***************************************************************************)
(* Properties of the loader.  A step with calls' = calls + 1 is one call   *)
(* of load_ridership_csv: fs is the file system the call found, fs' the    *)
(* one it left, lastCall' what it did and returned.                        *)
(***************************************************************************)
IsCall == calls' = calls + 1

\* The local files a call with argument `path` looks at.
LocalCandidates(path) == {"data", "app", "cwd"} \cup (IF path \in Paths THEN {path} ELSE {})

\* The table the embedded sample parses to.
SyntheticTable ==
  [header |-> << <<"nom_gare">>, Y2022, Y2023, Y2024, <<"non_voyageurs">> >>,
   rows |-> <<
     << StrCell(<<"Paris Gare de Lyon">>), NumCell(100000000), NumCell(105000000),
        NumCell(110000000), NumCell(0) >>,
     << StrCell(<<"Lyon Part-Dieu">>), NumCell(50000000), NumCell(52000000),
        NumCell(54000000), NumCell(0) >>,
     << StrCell(<<"Bordeaux St Jean">>), NumCell(30000000), NumCell(31000000),
        NumCell(32000000), NumCell(0) >> >>]

\* C1: load_ridership_csv never raises, whatever path is given, whatever each
\* local candidate is (missing, a table, unreadable), whether the remote fetch
\* and the cache write succeed or fail; and when no local candidate and no
\* remote fetch yields a table it returns the embedded synthetic table.
C1_NeverRaises ==
  [][IsCall =>
       /\ ~lastCall'.raised
       /\ ( /\ \A p \in LocalCandidates(lastCall'.path) : fs[p].kind # "csv"
            /\ ~lastCall'.remote.ok
            => lastCall'.df = SyntheticTable )]_vars

\* A call found an unreadable cache file and a failing remote source, and
\* returned the synthetic table.
C1_Witness ==
  /\ calls = 1
  /\ ~dataTouched
  /\ fs["data"] = Unreadable
  /\ ~lastCall.remote.ok
  /\ ~lastCall.raised
  /\ lastCall.df = SyntheticTable

\* Whether source s yields a table, and the table it yields.
Yields(files, remote, s) ==
  IF s = "remote" THEN remote.ok
  ELSE IF s = "synthetic" THEN TRUE
  ELSE files[s].kind = "csv"

RawOf(files, remote, s) ==
  IF s = "remote" THEN remote.raw
  ELSE IF s = "synthetic" THEN sample_csv
  ELSE files[s].raw

\* The call returned the table of the first source of `order` that yields one.
FirstInOrder(order, files, call) ==
  \E i \in 1..Len(order) :
    /\ Yields(files, call.remote, order[i])
    /\ \A j \in 1..(i - 1) : ~Yields(files, call.remote, order[j])
    /\ call.src = order[i]
    /\ call.df = ConvertNumeric(ReadCsv(RawOf(files, call.remote, order[i])))

\* C2 as stated: the sources are (a) the explicit path, (b) the cache path
\* data/frequentation-gares.csv, (c) the remote URL, (d) the synthetic table,
\* and the call returns the table of the first of these that yields one.
C2_Original ==
  [][IsCall =>
       FirstInOrder((IF PathGiven(lastCall'.path) THEN <<lastCall'.path>> ELSE <<>>)
                      \o <<"data", "remote", "synthetic">>,
                    fs, lastCall')]_vars

\* C2 as amended: the sources are (a) the explicit path, (b) the cache path
\* data/frequentation-gares.csv, then frequentation-gares.csv in the
\* application directory, then in the working directory, (c) the remote URL,
\* (d) the synthetic table; the call returns the table of the first source in
\* that order that yields one, never that of a later source.
C2_SourceOrder ==
  [][IsCall =>
       FirstInOrder((IF PathGiven(lastCall'.path) THEN <<lastCall'.path>> ELSE <<>>)
                      \o <<"data", "app", "cwd", "remote", "synthetic">>,
                    fs, lastCall')]_vars

\* A call returned the application directory's file although the remote
\* source had a table and the working directory's file was readable too.
C2_Witness ==
  /\ calls = 1
  /\ lastCall.src = "app"
  /\ lastCall.remote.ok
  /\ lastCall.df = ConvertNumeric(ReadCsv(TableA))
  /\ fs["data"] = Unreadable
  /\ fs["cwd"].kind = "csv"
  /\ ~dataTouched

\* C3: the remote URL is fetched only if no local candidate yielded a table
\* in that call; when a local copy resolves there is no fetch and no cache
\* write (the file system is left as it was).
C3_RemoteOnlyIfNoLocal ==
  [][IsCall =>
       LET resolved == \E p \in LocalCandidates(lastCall'.path) : fs[p].kind = "csv" IN
         /\ lastCall'.fetchTried => ~resolved
         /\ resolved => /\ ~lastCall'.fetchTried
                        /\ lastCall'.cacheWrite = "none"
                        /\ fs' = fs]_vars

\* A call resolved a local file while the remote source had a table to give,
\* and did not fetch it.
C3_Witness ==
  /\ calls = 1
  /\ lastCall.src \in Paths
  /\ lastCall.remote.ok
  /\ ~lastCall.fetchTried
  /\ lastCall.cacheWrite = "none"

\* C4: after a call in which no local candidate resolved, the fetch succeeded
\* and the cache write succeeded, the next call (the cache file untouched in
\* between, no explicit path) resolves from the cache path, fetches nothing
\* and returns a table equal to the first call's.
C4_CacheServesNextCall ==
  [][( /\ IsCall
       /\ lastCall.src = "remote"
       /\ lastCall.cacheWrite = "ok"
       /\ ~dataTouched
       /\ ~PathGiven(lastCall'.path) )
     => /\ lastCall'.src = "data"
        /\ ~lastCall'.fetchTried
        /\ ~lastCall'.raised
        /\ lastCall'.df = lastCall.df]_vars

\* The second call was served by the cache file the first call wrote: only a
\* cache write leaves the remote table's text at the cache path.
C4_Witness ==
  /\ calls = 2
  /\ ~dataTouched
  /\ fs["data"] = CsvFile(ToCsv(ReadCsv(TableB)))
  /\ lastCall.src = "data"
  /\ ~PathGiven(lastCall.path)
  /\ ~lastCall.fetchTried
  /\ lastCall.df = ConvertNumeric(ReadCsv(TableB))

(***************************************************************************)
(* Properties of analyse_pricing.  pricing.done: the function has run on   *)
(* df_price and df_stations; pricing.error = "none": it returned.          *)
(***************************************************************************)
Returned == pricing.done /\ pricing.error = "none"

\* Some station row with a code and coordinates has this code's key.
HasEntry(code) ==
  \E j \in 1..Len(df_stations) :
    /\ df_stations[j].code_uic.k # "na"
    /\ df_stations[j].geo_point_2d.k # "nan"
    /\ Str(df_stations[j].code_uic) = Str(code)

Resolves(row) == HasEntry(row.origine_uic) /\ HasEntry(row.destination_uic)

\* C5: analyse_pricing returns one output row per input fare row, in the
\* same order, every input column with its value, plus the three derived
\* columns; rows whose codes do not match are kept.
C5_RowsPreserved ==
  Returned =>
    /\ Len(pricing.rows) = Len(df_price)
    /\ \A i \in 1..Len(df_price) :
         /\ DOMAIN pricing.rows[i] = FareColumns \cup DerivedColumns
         /\ \A c \in FareColumns : pricing.rows[i][c] = df_price[i][c]

\* Two different fare rows went in, the first with an unknown code and the
\* second with both codes known, and came out.
C5_Witness ==
  /\ Returned
  /\ Len(df_price) = 2
  /\ df_price[1] # df_price[2]
  /\ ~Resolves(df_price[1])
  /\ Resolves(df_price[2])
  /\ Len(pricing.rows) = 2

\* C6: for a fare row whose origin or destination code has no entry in the
\* station lookup, distance_km, cost_per_km_min and cost_per_km_max are all
\* missing, and the row is in the output.
C6_UnresolvedAllMissing ==
  Returned =>
    \A i \in 1..Len(df_price) :
      ~Resolves(df_price[i]) =>
        /\ i \in DOMAIN pricing.rows
        /\ pricing.rows[i].origine_uic = df_price[i].origine_uic
        /\ pricing.rows[i].destination_uic = df_price[i].destination_uic
        /\ pricing.rows[i].distance_km = NaN
        /\ pricing.rows[i].cost_per_km_min = NaN
        /\ pricing.rows[i].cost_per_km_max = NaN

\* A fare row whose origin is known and whose destination is not came out
\* with the three derived values missing.
C6_Witness ==
  /\ Returned
  /\ \E i \in 1..Len(df_price) :
       /\ HasEntry(df_price[i].origine_uic)
       /\ ~HasEntry(df_price[i].destination_uic)
       /\ pricing.rows[i].distance_km = NaN
       /\ pricing.rows[i].cost_per_km_min = NaN

\* The quotient price / distance the claims expect, in 1/Scale euro per km.
Quotient(price, dist) ==
  IF price.k = "num" THEN NumCell((price.n * Scale) \div dist.n) ELSE NaN

\* C7: the two costs per kilometre are price_min and price_max divided by the
\* distance exactly when the distance is present and strictly positive; when
\* it is missing or zero both are missing, and no division by zero occurs.
C7_CostGuard ==
  pricing.done =>
    /\ pricing.error # "ZeroDivisionError"
    /\ Returned =>
         \A i \in 1..Len(df_price) :
           LET out == pricing.rows[i] IN
             IF out.distance_km.k = "num" /\ out.distance_km.n > 0
             THEN /\ out.cost_per_km_min = Quotient(df_price[i].prix_min, out.distance_km)
                  /\ out.cost_per_km_max = Quotient(df_price[i].prix_max, out.distance_km)
             ELSE /\ out.cost_per_km_min = NaN
                  /\ out.cost_per_km_max = NaN

\* One row came out with a zero distance and no cost, another with a positive
\* distance and its two costs.
C7_Witness ==
  /\ Returned
  /\ \E i \in 1..Len(df_price) :
       /\ pricing.rows[i].distance_km = NumCell(0)
       /\ pricing.rows[i].cost_per_km_min = NaN
  /\ \E i \in 1..Len(df_price) :
       /\ pricing.rows[i].distance_km.k = "num"
       /\ pricing.rows[i].distance_km.n > 0
       /\ pricing.rows[i].cost_per_km_min.k = "num"
       /\ pricing.rows[i].cost_per_km_max.k = "num"

PricesOrdered(row) ==
  row.prix_min.k = "num" /\ row.prix_max.k = "num" /\ row.prix_min.n <= row.prix_max.n

CostsOrdered(out) ==
  /\ out.cost_per_km_min.k = "num"
  /\ out.cost_per_km_max.k = "num"
  /\ out.cost_per_km_min.n <= out.cost_per_km_max.n

\* C8 as stated: a fare row whose two codes resolve to known coordinates gets
\* a finite strictly positive distance_km, and finite cost_per_km_min <=
\* cost_per_km_max whenever price_min <= price_max.
C8_Original ==
  Returned =>
    \A i \in 1..Len(df_price) :
      Resolves(df_price[i]) =>
        /\ pricing.rows[i].distance_km.k = "num"
        /\ pricing.rows[i].distance_km.n > 0
        /\ PricesOrdered(df_price[i]) => CostsOrdered(pricing.rows[i])

\* C8 as amended: a fare row whose two codes resolve to known coordinates gets
\* a finite distance_km >= 0, which is 0 when both codes resolve to the same
\* coordinates; when the distance is strictly positive, cost_per_km_min <=
\* cost_per_km_max are finite whenever price_min <= price_max; when it is 0,
\* both costs are missing.
C8_ResolvedDistance ==
  Returned =>
    \A i \in 1..Len(df_price) :
      Resolves(df_price[i]) =>
        LET out == pricing.rows[i]
            c1 == pricing.coord_map[Str(df_price[i].origine_uic)]
            c2 == pricing.coord_map[Str(df_price[i].destination_uic)]
        IN  /\ out.distance_km.k = "num"
            /\ out.distance_km.n >= 0
            /\ c1 = c2 => out.distance_km.n = 0
            /\ (out.distance_km.n > 0 /\ PricesOrdered(df_price[i])) => CostsOrdered(out)
            /\ out.distance_km.n = 0 =>
                 out.cost_per_km_min = NaN /\ out.cost_per_km_max = NaN

\* A row between two stations with different coordinates came out with a
\* positive distance and ordered costs.
C8_Witness ==
  /\ Returned
  /\ \E i \in 1..Len(df_price) :
       /\ Resolves(df_price[i])
       /\ PricesOrdered(df_price[i])
       /\ pricing.rows[i].distance_km.n > 0
       /\ pricing.rows[i].cost_per_km_min.n < pricing.rows[i].cost_per_km_max.n

\* The number a code denotes, whatever its representation: the value of an
\* integer or of a float, the value of a string of digits (leading zeros
\* count for nothing).
IsNumber(code) ==
  \/ code.k \in {"int", "float"}
  \/ code.k = "str" /\ Len(code.s) > 0 /\ \A i \in 1..Len(code.s) : IsDigit(code.s[i])

Denotes(code) == IF code.k = "str" THEN DigitsValue(code.s) ELSE code.n

\* C9 as stated: a fare code and a station code that denote the same code
\* always match in the lookup, whether each is a number or a string, with or
\* without leading zeros.
C9_Original ==
  pricing.done =>
    \A i \in 1..Len(df_price), j \in 1..Len(df_stations) :
      \A code \in {df_price[i].origine_uic, df_price[i].destination_uic} :
        ( /\ df_stations[j].geo_point_2d.k # "nan"
          /\ IsNumber(code)
          /\ IsNumber(df_stations[j].code_uic)
          /\ Denotes(code) = Denotes(df_stations[j].code_uic) )
        => Str(code) \in DOMAIN pricing.coord_map

\* C10: when several station rows carry the same code, the coordinates used
\* for it are those of the last such row, among the rows with a code and a
\* coordinate pair.
C10_LastWriteWins ==
  pricing.done =>
    /\ \A j \in 1..Len(df_stations) :
         (df_stations[j].code_uic.k # "na" /\ df_stations[j].geo_point_2d.k # "nan")
         => Str(df_stations[j].code_uic) \in DOMAIN pricing.coord_map
    /\ \A key \in DOMAIN pricing.coord_map :
         \E j \in 1..Len(df_stations) :
           /\ df_stations[j].code_uic.k # "na"
           /\ df_stations[j].geo_point_2d.k # "nan"
           /\ Str(df_stations[j].code_uic) = key
           /\ pricing.coord_map[key] = df_stations[j].geo_point_2d.v
           /\ \A l \in (j + 1)..Len(df_stations) :
                ~ ( /\ df_stations[l].code_uic.k # "na"
                    /\ df_stations[l].geo_point_2d.k # "nan"
                    /\ Str(df_stations[l].code_uic) = key )

\* Two station rows carried the same code with different coordinates, and the
\* lookup holds the second row's.
C10_Witness ==
  /\ pricing.done
  /\ Len(df_stations) = 2
  /\ df_stations[1].code_uic = df_stations[2].code_uic
  /\ df_stations[1].geo_point_2d.k = "list"
  /\ df_stations[2].geo_point_2d.k = "list"
  /\ df_stations[1].geo_point_2d # df_stations[2].geo_point_2d
  /\ pricing.coord_map[Str(df_stations[2].code_uic)] = df_stations[2].geo_point_2d.v

(***************************************************************************)
(* Frame properties of the analyses.  A step that sets done is one call:   *)
(* the unprimed table is the one the caller passed, the primed one the     *)
(* caller's table after the call.                                          *)
(***************************************************************************)
IsPricingCall == ~pricing.done /\ pricing'.done

IsPunctualityCall == punctuality'.calls = punctuality.calls + 1

\* C11: analyse_pricing never changes the caller's fare table: after the call
\* it has the same columns, rows and values as before, and the three derived
\* columns exist only in the returned table.
C11_InputUnchanged ==
  [][IsPricingCall =>
       /\ df_price' = df_price
       /\ \A i \in 1..Len(df_price') : DOMAIN df_price'[i] = FareColumns
       /\ pricing'.error = "none" =>
            \A i \in 1..Len(pricing'.rows) : DerivedColumns \subseteq DOMAIN pricing'.rows[i]]_vars

\* analyse_pricing returned two rows with their derived columns, one of them
\* with a distance, and the caller's table still has the fare columns only.
C11_Witness ==
  /\ Returned
  /\ Len(df_price) = 2
  /\ Len(pricing.rows) = 2
  /\ \E i \in 1..2 : pricing.rows[i].distance_km.k = "num"
  /\ \A i \in 1..2 : DOMAIN df_price[i] = FareColumns
  /\ \A i \in 1..2 : DOMAIN pricing.rows[i] = FareColumns \cup DerivedColumns

\* C12 as stated: no analysis function changes the table its caller
\* supplies; analyse_punctuality leaves every cell of its input unchanged,
\* the cells that fail numeric coercion included.
C12_Original ==
  [][IsPunctualityCall => df_punctuality' = df_punctuality]_vars

(***************************************************************************)
(* Properties of analyse_ridership.  ridership.done: the function has run  *)
(* on df_ridership; ridership.error = "none": it returned.                 *)
(***************************************************************************)
RidershipReturned == ridership.done /\ ridership.error = "none"

YearColumns(df) == {c \in Range(df.header) : IsYearColumn(c)}

\* The sum of the cells of a column that hold a number.
PresentTotal(df, c) ==
  LET cells == Column(df, c)
      RECURSIVE Upto(_)
      Upto(i) == IF i = 0 THEN 0
                 ELSE Upto(i - 1) + (IF cells[i].k = "num" THEN cells[i].n ELSE 0)
  IN  Upto(Len(cells))

\* The year column of the largest year.
LatestYearColumn(df) ==
  CHOOSE c \in YearColumns(df) :
    \A d \in YearColumns(df) : DigitsValue(LastFour(d)) <= DigitsValue(LastFour(c))

\* C13: yearly_totals has, for each year column, the sum of that column's
\* non-missing cells, keyed by the four-digit year of the column name, and
\* is ordered ascending by year.
C13_YearlyTotals ==
  RidershipReturned =>
    /\ Len(ridership.totals) = Cardinality(YearColumns(df_ridership))
    /\ \A c \in YearColumns(df_ridership) :
         \E p \in 1..Len(ridership.totals) :
           /\ ridership.totals[p].year = LastFour(c)
           /\ ridership.totals[p].total_passengers = PresentTotal(df_ridership, c)
    /\ \A p, q \in 1..Len(ridership.totals) :
         p < q => DigitsValue(ridership.totals[p].year) < DigitsValue(ridership.totals[q].year)

\* The table total_voyageurs_2022 = [10, missing], total_voyageurs_2023 =
\* [20, 30] gave the totals 2022: 10, 2023: 50.
C13_Witness ==
  /\ RidershipReturned
  /\ df_ridership.header = <<nom_gare, Y2023, Y2022>>
  /\ Column(df_ridership, Y2022) = <<NumCell(10), NaN>>
  /\ Column(df_ridership, Y2023) = <<NumCell(20), NumCell(30)>>
  /\ ridership.totals = << [year |-> <<"2", "0", "2", "2">>, total_passengers |-> 10],
                           [year |-> <<"2", "0", "2", "3">>, total_passengers |-> 50] >>

\* C14 as stated: for every table with at least one year column, top_n ranks
\* the stations by their value in the year column of the largest year.
C14_Original ==
  (RidershipReturned /\ YearColumns(df_ridership) # {}) =>
    ridership.by = LatestYearColumn(df_ridership)

\* C15: the ranking column is total_voyageurs_2024 when the table has it;
\* only when it is absent, the year column of the largest year.  The values
\* of top_n are those of that column.
C15_RankingColumn ==
  RidershipReturned =>
    /\ ridership.by = (IF Y2024 \in Range(df_ridership.header) THEN Y2024
                       ELSE LatestYearColumn(df_ridership))
    /\ \A p \in 1..Len(ridership.top10) :
         ridership.top10[p].value = Column(df_ridership, ridership.by)[ridership.top10[p].index]

\* A table with the columns of 2025 and 2024 was ranked by 2024: the row that
\* leads in 2024 comes first although the other leads in 2025.
C15_Witness ==
  /\ RidershipReturned
  /\ df_ridership.header = <<nom_gare, Y2025, Y2024>>
  /\ Column(df_ridership, Y2025) = <<NumCell(30), NumCell(10)>>
  /\ Column(df_ridership, Y2024) = <<NumCell(10), NumCell(20)>>
  /\ ridership.by = Y2024
  /\ ridership.top10[1].index = 2

\* C16: top_n has exactly min(10, row count) rows, also when some rows have
\* a missing value in the selected column.
C16_TopCount ==
  RidershipReturned =>
    Len(ridership.top10) =
      (IF Len(df_ridership.rows) < TopN THEN Len(df_ridership.rows) ELSE TopN)

\* A table of eleven rows, two of them with a missing value, gave ten rows.
C16_Witness ==
  /\ RidershipReturned
  /\ Len(df_ridership.rows) = TopN + 1
  /\ Cardinality({i \in 1..Len(df_ridership.rows) :
                    Column(df_ridership, ridership.by)[i].k = "nan"}) = 2
  /\ Len(ridership.top10) = TopN

\* The rows of the table that are not in top_n.
Excluded == {i \in 1..Len(df_ridership.rows) :
               \A p \in 1..Len(ridership.top10) : ridership.top10[p].index # i}

\* C17 as stated: top_n is sorted descending by the selected year's value,
\* has no row whose value is missing, and no excluded row with a value is
\* larger than an included row.
C17_Original ==
  RidershipReturned =>
    /\ \A p \in 1..Len(ridership.top10) : ridership.top10[p].value.k = "num"
    /\ \A p, q \in 1..Len(ridership.top10) :
         p < q => ridership.top10[p].value.n >= ridership.top10[q].value.n
    /\ \A e \in Excluded, p \in 1..Len(ridership.top10) :
         Column(df_ridership, ridership.by)[e].k = "num" =>
           Column(df_ridership, ridership.by)[e].n <= ridership.top10[p].value.n

C19_Original ==
  (ridership.done /\ YearColumns(df_ridership) = {}) => ridership.error = "none"

(***************************************************************************)
(* Properties of analyse_punctuality.  punctuality.done: the function has  *)
(* run; df_punctuality is then the table as the call left it.              *)
(***************************************************************************)
PunctualityReturned == punctuality.done /\ punctuality.error = "none"

\* C20: cancellation_rate is the sum of the non-missing nb_annulation cells
\* divided by the sum of the non-missing nb_train_prevu cells over all rows
\* (in 1/Scale), not the mean of the rows' ratios; with a zero total of
\* nb_train_prevu it is not a number.
C20_CancellationRate ==
  PunctualityReturned =>
    IF PresentTotal(df_punctuality, nb_train_prevu) > 0
    THEN punctuality.summary.cancellation_rate =
           NumCell((PresentTotal(df_punctuality, nb_annulation) * Scale)
                     \div PresentTotal(df_punctuality, nb_train_prevu))
    ELSE punctuality.summary.cancellation_rate.k \in {"nan", "inf"}

\* nb_annulation = [0, 1] and nb_train_prevu = [34, 167] gave 1/201, which
\* is 49/Scale; the mean of the two ratios 0/34 and 1/167 is 29/Scale.
C20_Witness ==
  /\ PunctualityReturned
  /\ Column(df_punctuality, nb_annulation) = <<NumCell(0), NumCell(1)>>
  /\ Column(df_punctuality, nb_train_prevu) = <<NumCell(34), NumCell(167)>>
  /\ punctuality.summary.cancellation_rate = NumCell((1 * Scale) \div 201)
  /\ punctuality.summary.cancellation_rate # NumCell(((1 * Scale) \div 167) \div 2)

\* The cells of a column of the table as the caller gave it that hold a
\* number or a numeral, as numbers.
ParsedValues(df, c) ==
  LET cells == Column(df, c) IN
  [i \in {j \in 1..Len(cells) : ToNumericCell(cells[j]).k = "num"} |->
     ToNumericCell(cells[i]).n]

\* The sum of a function of numbers over its domain.
RECURSIVE SumOver(_)
SumOver(f) ==
  IF DOMAIN f = {} THEN 0
  ELSE LET i == CHOOSE j \in DOMAIN f : TRUE
       IN  f[i] + SumOver([j \in DOMAIN f \ {i} |-> f[j]])

\* C21: when the nb_train_prevu cells of the table add up to zero,
\* analyse_punctuality does not raise, and the cancellation_rate it returns
\* is not a number (nan or inf): never a default number such as 0.
C21_ZeroScheduled ==
  (punctuality.done /\ SumOver(ParsedValues(punctuality.given, nb_train_prevu)) = 0)
  => /\ punctuality.error = "none"
     /\ punctuality.summary.cancellation_rate.k \in {"nan", "inf"}
     /\ punctuality.summary.cancellation_rate # NumCell(0)

\* No train scheduled and one cancelled gave inf; no train scheduled and none
\* cancelled gave nan.
C21_Witness ==
  /\ punctuality.done
  /\ Len(punctuality.given.rows) = 2
  /\ Column(punctuality.given, nb_train_prevu) = <<NumCell(0), NaN>>
  /\ Column(punctuality.given, nb_annulation) = <<NumCell(1), NumCell(1)>>
  /\ punctuality.error = "none"
  /\ punctuality.summary.cancellation_rate = Inf

\* The mean of the cells of a column of the given table that hold a number
\* or a numeral, in 1/Scale; missing when there is none.
ParsedMean(df, c) ==
  LET v == ParsedValues(df, c) IN
  IF DOMAIN v = {} THEN NaN
  ELSE NumCell((SumOver(v) * Scale) \div Cardinality(DOMAIN v))

\* C22: the cause breakdown analyse_punctuality returns has exactly one
\* entry for each of the five cause columns, and each entry is the mean of
\* the column's cells that hold a value: a missing or unparseable cell is
\* left out of the mean, not counted as zero.
C22_CauseBreakdown ==
  PunctualityReturned =>
    /\ Len(punctuality.cause_means) = Len(CauseNames)
    /\ \A i \in 1..Len(CauseNames) :
         /\ punctuality.cause_means[i].cause = <<CausePrefix, CauseNames[i]>>
         /\ punctuality.cause_means[i].mean =
              ParsedMean(punctuality.given, <<CausePrefix, CauseNames[i]>>)

\* prct_cause_infra = [10, "abc"] gave the mean 10, not 5; prct_cause_reseau
\* = [30, missing] gave 30.
C22_Witness ==
  /\ PunctualityReturned
  /\ Len(punctuality.given.rows) = 2
  /\ Column(punctuality.given, <<CausePrefix, "infra">>) = <<NumCell(10), Text("abc")>>
  /\ Column(punctuality.given, <<CausePrefix, "reseau">>) = <<NumCell(30), NaN>>
  /\ punctuality.cause_means[1] =
       [cause |-> <<CausePrefix, "infra">>, mean |-> NumCell(10 * Scale)]
  /\ punctuality.cause_means[3] =
       [cause |-> <<CausePrefix, "reseau">>, mean |-> NumCell(30 * Scale)]

\* C30: a second call of analyse_punctuality on the same table object
\* returns the same summary and the same cause breakdown as the first, and
\* leaves the table as the first call left it.
C30_Idempotent ==
  [][(punctuality.calls >= 1 /\ IsPunctualityCall) =>
       /\ punctuality'.error = punctuality.error
       /\ punctuality'.summary = punctuality.summary
       /\ punctuality'.cause_means = punctuality.cause_means
       /\ df_punctuality' = df_punctuality]_vars

\* Two calls on a table that held numerals and unparseable text: the first
\* call rewrote the table, the second found it as the first left it.
C30_Witness ==
  /\ punctuality.calls = 2
  /\ punctuality.error = "none"
  /\ punctuality.given # df_punctuality
  /\ Len(punctuality.given.rows) = 2
  /\ Column(punctuality.given, nb_train_prevu) = <<StrCell(<<"3", "4">>), Text("abc")>>
  /\ Column(df_punctuality, nb_train_prevu) = <<NumCell(34), NaN>>
  /\ punctuality.summary.cancellation_rate = NumCell((1 * Scale) \div 34)

\* A price cell that fails the numeric coercion.
FailsCoercion(c) == c.k = "str" /\ ToNumericCell(c).k = "nan"

\* C23 as stated: analyse_pricing, given a fare row whose prix_min or
\* prix_max cell fails the numeric coercion and whose two codes resolve,
\* does not raise, and the row's cost per kilometre for that price is
\* missing.
C23_Original ==
  pricing.done =>
    \A i \in 1..Len(df_price) :
      (Resolves(df_price[i]) /\ FailsCoercion(df_price[i].prix_min))
      => /\ pricing.error = "none"
         /\ pricing.rows[i].cost_per_km_min.k = "nan"

(***************************************************************************)
(* Properties of load_json_records.  loaded.done: the function has run on  *)
(* document; loaded.error = "none": it returned loaded.table.              *)
(***************************************************************************)
LoadedTable == loaded.done /\ loaded.error = "none"

\* C24: load_json_records on an envelope of N records returns a table of
\* exactly N rows, row i holding the fields of record i in the input order;
\* the columns are the union of the keys of all the fields maps, and a row
\* has a missing value in the columns its record lacks.
C24_OneRowPerRecord ==
  LoadedTable =>
    /\ Len(loaded.table.rows) = Len(document.records)
    /\ loaded.table.columns =
         {kv[1] : kv \in UNION {document.records[i].fields : i \in 1..Len(document.records)}}
    /\ \A i \in 1..Len(document.records) :
         /\ DOMAIN loaded.table.rows[i] = loaded.table.columns
         /\ \A kv \in document.records[i].fields : loaded.table.rows[i][kv[1]] = kv[2]
         /\ \A c \in loaded.table.columns :
              (\A kv \in document.records[i].fields : kv[1] # c)
              => loaded.table.rows[i][c] = NaN

\* Three records with the keys {origine}, {} and {prix_min} gave three rows
\* in that order over the two columns, with missing values elsewhere.
C24_Witness ==
  /\ LoadedTable
  /\ Len(document.records) = 3
  /\ document.records[1].fields = {<<"origine", StrCell(<<"A">>)>>}
  /\ document.records[2].fields = {}
  /\ document.records[3].fields = {<<"prix_min", NumCell(15)>>}
  /\ loaded.table.columns = {"origine", "prix_min"}
  /\ loaded.table.rows[1]["prix_min"] = NaN
  /\ loaded.table.rows[2]["origine"] = NaN
  /\ loaded.table.rows[3]["prix_min"] = NumCell(15)

\* The document is JSON but not an envelope of records with fields.
Malformed ==
  /\ document.wellformed
  /\ \/ "records" \notin document.keys
     \/ \E i \in 1..Len(document.records) : "fields" \notin document.records[i].keys

\* C25: when the document lacks the records key, or any one record lacks
\* the fields key, load_json_records fails with an error (Python's KeyError)
\* and returns no table, not even for the records that were well formed.
C25_MalformedEnvelope ==
  (loaded.done /\ Malformed) =>
    /\ loaded.error = "KeyError"
    /\ loaded.table = NoTable

\* Two well formed records followed by one without the fields key: the call
\* failed and returned nothing.
C25_Witness ==
  /\ loaded.done
  /\ Len(document.records) = 3
  /\ document.records[1] = JsonRecord({<<"origine", StrCell(<<"A">>)>>})
  /\ document.records[2] = JsonRecord({<<"prix_min", NumCell(15)>>})
  /\ document.records[3] = NoFieldsKey
  /\ loaded.error = "KeyError"
  /\ loaded.table.rows = <<>>

\* C26: estimate_emissions(d) returns (d * 14 / 1000, d * 55 / 1000) for
\* every distance d; for 100 km that is exactly (1.4, 5.5); and for every
\* d >= 0 the car estimate is at least the train estimate.
C26_Emissions ==
  emissions.done =>
    /\ emissions.train_emissions * 1000 = distance_km * 14
    /\ emissions.car_emissions * 1000 = distance_km * 55
    /\ distance_km = 100 * Scale =>
         /\ emissions.train_emissions = (14 * Scale) \div 10
         /\ emissions.car_emissions = (55 * Scale) \div 10
    /\ distance_km >= 0 => emissions.car_emissions >= emissions.train_emissions

\* 100 km gave 1.4 kg by train and 5.5 kg by car.
C26_Witness ==
  /\ emissions.done
  /\ distance_km = 100 * Scale
  /\ emissions.train_emissions = 14000
  /\ emissions.car_emissions = 55000
  /\ emissions.car_emissions > emissions.train_emissions

\* C27 as stated: for all coordinates A and B in the valid ranges,
\* haversine gives distance(A, B) = distance(B, A), distance(A, B) >= 0 and
\* distance(A, A) = 0.
C27_Original ==
  great_circle.done =>
    /\ ~great_circle.there.raised
    /\ ~great_circle.back.raised
    /\ great_circle.there.km = great_circle.back.km
    /\ great_circle.there.km >= 0
    /\ coords[1] = coords[2] => great_circle.there.km = 0

\* C28: when the remote fetch of load_ridership_csv succeeds and the write
\* of the cache copy fails, the call raises nothing and returns the fetched
\* table, not the synthetic one; and the cache file is written only in a
\* call whose fetch succeeded.
C28_CacheWriteBestEffort ==
  [][IsCall =>
       /\ lastCall'.cacheWrite \in {"fail_clean", "fail_trunc"} =>
            /\ ~lastCall'.raised
            /\ lastCall'.src = "remote"
            /\ lastCall'.df = ConvertNumeric(ReadCsv(lastCall'.remote.raw))
            /\ lastCall'.df # SyntheticTable
       /\ (lastCall'.cacheWrite # "none" \/ fs' # fs) =>
            /\ lastCall'.fetchTried
            /\ lastCall'.remote.ok
            /\ \A p \in LocalCandidates(lastCall'.path) : fs[p].kind # "csv"]_vars

\* A call fetched table B, the cache write broke off and left an unreadable
\* file, and the call returned table B.
C28_Witness ==
  /\ calls >= 1
  /\ lastCall.remote = RemoteTable(TableB)
  /\ lastCall.cacheWrite = "fail_trunc"
  /\ fs["data"] = Unreadable
  /\ ~lastCall.raised
  /\ lastCall.src = "remote"
  /\ lastCall.df = ConvertNumeric(ReadCsv(TableB))

\* C29 as stated: in the fallback branch (no total_voyageurs_2024 column),
\* the name rebuilt as total_voyageurs_<largest year> is always a column of
\* the table, so that the call returns, and the key of each yearly total is
\* the last four characters of its column, for every set of names accepted
\* as year columns.
C29_Original ==
  ( /\ ridership.done
    /\ Y2024 \notin Range(df_ridership.header)
    /\ YearColumns(df_ridership) # {} )
  => /\ YearPrefix \o IntStr(Max({DigitsValue(LastFour(c)) : c \in YearColumns(df_ridership)}))
          \in Range(df_ridership.header)
     /\ ridership.error = "none"
     /\ \A c \in YearColumns(df_ridership) :
          \E p \in 1..Len(ridership.totals) : ridership.totals[p].year = LastFour(c)

====
